---- MODULE Spec2Model ----
(***************************************************************************)
(* Model of the multi-cluster Elasticsearch client library                 *)
(* (billz-2/elasticsearch-cluster): the query mutator, the operation       *)
(* facade and the resolver with its Redis cache.                           *)
(*                                                                         *)
(* The specifications share the module, one per subsystem:                 *)
(*   SpecMut  the query mutator applied repeatedly to one document         *)
(*   SpecOps  the operation facade (Search, Count, DeleteByQuery,          *)
(*            UpdateByQuery) dispatching requests to the transport         *)
(*   SpecRes  the resolver, its background cache writes and invalidation   *)
(*   SpecSync  Resolve while the metadata service migrates a tenant        *)
(*   SpecLive  the resolver with every background cache write getting to   *)
(*            run and Redis accepting it                                   *)
(*   SpecCancel  the resolver with a caller that cancels its context       *)
(*   SpecDetect  DetectIndexTarget applied to index names                  *)
(*   SpecReg  Config.Validate, NewRegistryFromConfig and the lookups of    *)
(*            the Registry                                                 *)
(* Each specification leaves the variables of the others at their initial  *)
(* value.                                                                  *)
(***************************************************************************)
EXTENDS Integers, Sequences, FiniteSets, TLC

VARIABLES
    \* ---- query mutator (SpecMut) ----
    mQuery,      \* the document handed to InjectCompanyFilter (mutated in place)
    mOrig,       \* the document as it was before the first call
    mBefore,     \* the document as it was before the last call
    mCompanyID,  \* companyID argument of the last call
    mTarget,     \* target argument of the last call
    mErr,        \* outcome of the last call
    mApplied,    \* companyIDs of the successful Shared calls so far, in order
    mCalls,      \* number of calls so far
    \* ---- operation facade (SpecOps) ----
    oReq,        \* the request of the last facade call
    oSent,       \* the HTTP request that call handed to the transport, if any
    oResult,     \* what the call returned
    oCaller,     \* the caller's query document as the caller holds it
    oResp,       \* what the transport gave back for the request, if one was sent
    \* ---- resolver (SpecRes) ----
    redis,       \* the Redis keyspace: present keys and their values
    rPc,         \* where the caller's resolver call stands
    rCall,       \* the resolver call in progress or last made
    rRead,       \* what that call's getFromCache returned
    rHTTP,       \* metadata-service response that call received, if any
    rRet,        \* what that call returned
    rSched,      \* the cache writes that call scheduled
    rCtx,        \* the context the caller passed to that call
    rPending,    \* background cache writes scheduled and not yet run
    sCursor,     \* InvalidateCompanyCache: keys the scan has passed
    sDeleted,    \* keys the invalidation call deleted
    sync,        \* the (tenant, kind) whose migration is followed, and its state
    \* ---- index classification (SpecDetect) ----
    dName,       \* the index name DetectIndexTarget is called with
    dTarget,     \* what the last call returned
    dFirst,      \* what the first call returned
    dCalls,      \* number of calls so far
    \* ---- configuration and registry (SpecReg) ----
    gCfg,        \* the Config
    gValid,      \* what Config.Validate returned
    gReg,        \* the Registry NewRegistryFromConfig returned, if any
    gErr,        \* the error NewRegistryFromConfig returned
    gCall,       \* the last registry lookup
    gRet,        \* what it returned
    gPrevCall,   \* the lookup before it
    gPrevRet     \* what that one returned

mutVars == <<mQuery, mOrig, mBefore, mCompanyID, mTarget, mErr, mApplied, mCalls>>

opsVars == <<oReq, oSent, oResult, oCaller, oResp>>

resVars ==
    <<redis, rPc, rCall, rRead, rHTTP, rRet, rSched, rCtx, rPending, sCursor,
      sDeleted, sync>>

detVars == <<dName, dTarget, dFirst, dCalls>>

regVars == <<gCfg, gValid, gReg, gErr, gCall, gRet, gPrevCall, gPrevRet>>

vars == <<mutVars, opsVars, resVars, detVars, regVars>>

-----------------------------------------------------------------------------
(* JSON values as Go holds them after decoding into map[string]any.        *)
(* Every value is a record of the same shape so that values of different   *)
(* kinds can be compared: t is the kind, s the scalar text, a the elements *)
(* of an array, o the members of an object as <<key, value>> pairs kept    *)
(* in the order of KeyOrder (a Go map has no order of its own, so the      *)
(* sorted form is the canonical one and equality is JSON equality).        *)

Val(t, s, a, o) == [t |-> t, s |-> s, a |-> a, o |-> o]

Str(s) == Val("str", s, <<>>, <<>>)

Num(s) == Val("num", s, <<>>, <<>>)

Null == Val("null", "", <<>>, <<>>)

Arr(a) == Val("arr", "", a, <<>>)

ObjOf(o) == Val("obj", "", <<>>, o)

EmptyObj == ObjOf(<<>>)

\* A nil map[string]any: readable like an empty map, assignment panics.
NilMap == Val("nil", "", <<>>, <<>>)

\* The Go zero interface value read from a missing key.
Missing == Val("missing", "", <<>>, <<>>)

KeyOrder ==
    << "aggs", "bool", "company_id.keyword", "filter", "gte", "is_active",
       "match_all", "minimum_should_match", "must", "must_not", "price",
       "query", "range", "should", "sort", "status", "term" >>

Rank(k) == CHOOSE i \in 1..Len(KeyOrder) : KeyOrder[i] = k

IsMap(v) == v.t = "obj"

\* v, present := m[k]
MapHas(m, k) == m.t = "obj" /\ \E i \in 1..Len(m.o) : m.o[i][1] = k

MapGet(m, k) ==
    IF MapHas(m, k)
    THEN m.o[CHOOSE i \in 1..Len(m.o) : m.o[i][1] = k][2]
    ELSE Missing

\* m[k] = v on a non-nil map
MapPut(m, k, v) ==
    LET lower == SelectSeq(m.o, LAMBDA p : Rank(p[1]) < Rank(k))
        upper == SelectSeq(m.o, LAMBDA p : Rank(p[1]) > Rank(k))
    IN  ObjOf(lower \o << <<k, v>> >> \o upper)

MapKeys(m) == IF m.t = "obj" THEN {m.o[i][1] : i \in 1..Len(m.o)} ELSE {}

Obj1(k, v) == MapPut(EmptyObj, k, v)

Obj2(k1, v1, k2, v2) == MapPut(Obj1(k1, v1), k2, v2)

-----------------------------------------------------------------------------
(* Query mutator                                                           *)

IndexTargetPerCompany == "per_company"

IndexTargetShared == "shared"

IndexTargets == {IndexTargetPerCompany, IndexTargetShared}

NoErr == "nil"

ErrCompanyRequired == "companyID required for shared index"

ErrUnexpectedFilterType == "unexpected filter type"

\* assignment to an entry in a nil map: a Go run-time panic
Panic == "panic"

NotCalled == "not called"

companyFilter(companyID) ==
    Obj1("term", Obj1("company_id.keyword", Str(companyID)))

\* injectIntoBool deduplicating instead of appending
injectIntoBool_Dedup(boolMap, filter) ==
    LET filterVal == MapGet(boolMap, "filter")
    IN  IF ~MapHas(boolMap, "filter")
        THEN [m |-> MapPut(boolMap, "filter", Arr(<<filter>>)), err |-> NoErr]
        ELSE IF filterVal.t = "arr"
        THEN IF \E i \in 1..Len(filterVal.a) : filterVal.a[i] = filter
             THEN [m |-> boolMap, err |-> NoErr]
             ELSE [m |-> MapPut(boolMap, "filter", Arr(Append(filterVal.a, filter))),
                   err |-> NoErr]
        ELSE IF filterVal.t = "obj"
        THEN [m |-> MapPut(boolMap, "filter", Arr(<<filterVal, filter>>)), err |-> NoErr]
        ELSE [m |-> boolMap, err |-> ErrUnexpectedFilterType]

\* injectIntoBool putting the company term first and overwriting an object filter
injectIntoBool_Prepend(boolMap, filter) ==
    LET filterVal == MapGet(boolMap, "filter")
    IN  IF ~MapHas(boolMap, "filter")
        THEN [m |-> MapPut(boolMap, "filter", Arr(<<filter>>)), err |-> NoErr]
        ELSE IF filterVal.t = "arr"
        THEN [m |-> MapPut(boolMap, "filter", Arr(<<filter>> \o filterVal.a)), err |-> NoErr]
        ELSE IF filterVal.t = "obj"
        THEN [m |-> MapPut(boolMap, "filter", Arr(<<filter>>)), err |-> NoErr]
        ELSE [m |-> boolMap, err |-> ErrUnexpectedFilterType]

\* injectIntoBool rebuilding the bool map from the filter alone
injectIntoBool_FreshBool(boolMap, filter) ==
    LET filterVal == MapGet(boolMap, "filter")
    IN  IF ~MapHas(boolMap, "filter")
        THEN [m |-> Obj1("filter", Arr(<<filter>>)), err |-> NoErr]
        ELSE IF filterVal.t = "arr"
        THEN [m |-> Obj1("filter", Arr(Append(filterVal.a, filter))), err |-> NoErr]
        ELSE IF filterVal.t = "obj"
        THEN [m |-> Obj1("filter", Arr(<<filterVal, filter>>)), err |-> NoErr]
        ELSE [m |-> boolMap, err |-> ErrUnexpectedFilterType]

\* m is boolMap after the call (it is mutated in place), err the returned error
injectIntoBool(boolMap, filter) ==
    LET filterVal == MapGet(boolMap, "filter")
        hasFilter == MapHas(boolMap, "filter")
    IN  IF ~hasFilter
        THEN [m |-> MapPut(boolMap, "filter", Arr(<<filter>>)), err |-> NoErr]
        ELSE IF filterVal.t = "arr"
        THEN [m |-> MapPut(boolMap, "filter", Arr(Append(filterVal.a, filter))),
              err |-> NoErr]
        ELSE IF filterVal.t = "obj"
        THEN [m |-> MapPut(boolMap, "filter", Arr(<<filterVal, filter>>)), err |-> NoErr]
        ELSE [m |-> boolMap, err |-> ErrUnexpectedFilterType]

\* The mutation proper, after the target and companyID checks.
injectShared(query, companyID) ==
    LET cf       == companyFilter(companyID)
        queryMap == MapGet(query, "query")
        hasQuery == IsMap(queryMap)
        boolMap  == MapGet(queryMap, "bool")
        hasBool  == IsMap(boolMap)
    IN  IF ~hasQuery
        THEN IF query.t = "nil"
             THEN [query |-> query, err |-> Panic]
             ELSE [query |-> MapPut(query, "query",
                                    Obj1("bool", Obj1("filter", Arr(<<cf>>)))),
                   err |-> NoErr]
        ELSE IF hasBool
        THEN LET r == injectIntoBool(boolMap, cf)
             IN  [query |-> MapPut(query, "query", MapPut(queryMap, "bool", r.m)),
                  err |-> r.err]
        ELSE [query |-> MapPut(query, "query",
                               Obj1("bool", Obj2("must", Arr(<<queryMap>>),
                                                 "filter", Arr(<<cf>>)))),
              err |-> NoErr]

\* InjectCompanyFilter without the per-company early return
InjectCompanyFilter_NoTargetCheck(query, companyID, target) ==
    IF companyID = ""
    THEN [query |-> query, err |-> ErrCompanyRequired]
    ELSE injectShared(query, companyID)

\* InjectCompanyFilter without the empty-companyID check
InjectCompanyFilter_NoCompanyCheck(query, companyID, target) ==
    IF target = IndexTargetPerCompany
    THEN [query |-> query, err |-> NoErr]
    ELSE injectShared(query, companyID)

\* query is the document after the call (mutated in place), err the result
InjectCompanyFilter(query, companyID, target) ==
    IF target = IndexTargetPerCompany
    THEN [query |-> query, err |-> NoErr]
    ELSE IF companyID = ""
    THEN [query |-> query, err |-> ErrCompanyRequired]
    ELSE injectShared(query, companyID)

-----------------------------------------------------------------------------
(* Documents the mutator is exercised on                                   *)

matchAllClause == Obj1("match_all", EmptyObj)

statusTerm == Obj1("term", Obj1("status", Str("active")))

activeTerm == Obj1("term", Obj1("is_active", Str("true")))

rangeClause == Obj1("range", Obj1("price", Obj1("gte", Num("10"))))

sortClause == Arr(<<Str("created_at")>>)

CompanyIDs == {"", "c1", "c2"}

\* prior values of bool.filter; Missing stands for "no filter key"
FilterVals ==
    { Missing,
      Arr(<<>>), Arr(<<rangeClause>>), Arr(<<rangeClause, activeTerm>>),
      Arr(<<companyFilter("c1")>>),
      activeTerm,
      Str("x"), Num("1"), Null }

WithKey(m, k, v) == IF v = Missing THEN m ELSE MapPut(m, k, v)

BoolMaps ==
    { WithKey(WithKey(WithKey(WithKey(WithKey(EmptyObj,
          "filter", f), "must", mu), "should", sh), "must_not", sh),
          "minimum_should_match", IF sh = Missing THEN Missing ELSE Num("1")) :
        f \in FilterVals,
        mu \in {Missing, Arr(<<statusTerm>>)},
        sh \in {Missing, Arr(<<matchAllClause>>)} }

\* values of the top-level "query" key; Missing stands for "no query key"
QueryVals ==
    { Missing, matchAllClause, statusTerm, Obj1("bool", Str("x")),
      Str("q"), Null, Arr(<<matchAllClause>>) }
    \cup { Obj1("bool", b) : b \in BoolMaps }

Documents ==
    { WithKey(WithKey(EmptyObj, "query", q), "sort", so) :
        q \in QueryVals, so \in {Missing, sortClause} }

\* what a caller can pass as map[string]any
QueryArgs == Documents \cup {NilMap}

-----------------------------------------------------------------------------
(* Index names and their classification.  A string is the sequence of its  *)
(* characters.                                                             *)

Chars(n, c) == [i \in 1..n |-> c]

Count(s, c) == Cardinality({i \in 1..Len(s) : s[i] = c})

\* strings.Split(s, sep) for a one-character separator
RECURSIVE Split(_, _)
Split(s, sep) ==
    IF Count(s, sep) = 0
    THEN <<s>>
    ELSE LET i == CHOOSE j \in 1..Len(s) :
                     s[j] = sep /\ \A h \in 1..(j - 1) : s[h] # sep
         IN  <<SubSeq(s, 1, i - 1)>> \o Split(SubSeq(s, i + 1, Len(s)), sep)

UUIDLen == 36

UUIDDashes == 4

\* DetectIndexTarget taking four dashes or more for a UUID
DetectIndexTarget_AtLeastFour(indexName) ==
    LET parts    == Split(indexName, "_")
        lastPart == parts[Len(parts)]
    IN  IF Len(parts) < 2
        THEN IndexTargetShared
        ELSE IF Len(lastPart) = UUIDLen /\ Count(lastPart, "-") >= UUIDDashes
        THEN IndexTargetPerCompany
        ELSE IndexTargetShared

DetectIndexTarget(indexName) ==
    LET parts    == Split(indexName, "_")
        lastPart == parts[Len(parts)]
    IN  IF Len(parts) < 2
        THEN IndexTargetShared
        ELSE IF Len(lastPart) = UUIDLen /\ Count(lastPart, "-") = UUIDDashes
        THEN IndexTargetPerCompany
        ELSE IndexTargetShared

\* a token of len characters, dashes of them "-"
Token(len, dashes) == Chars(dashes, "-") \o Chars(len - dashes, "x")

IndexNames ==
    { <<>>,
      <<"o">>,
      <<"p", "_", "s">>,
      <<"p", "_", "t", "_", "g">>,
      <<"p", "_">> \o Token(36, 4),
      <<"o", "_", "v", "_">> \o Token(36, 4),
      <<"p", "_">> \o Token(36, 3),
      <<"p", "_">> \o Token(35, 4),
      Token(36, 4) }

\* a token laid out as a UUID is: 8-4-4-4-12
UUIDToken ==
    Chars(8, "x") \o <<"-">> \o Chars(4, "x") \o <<"-">> \o Chars(4, "x")
        \o <<"-">> \o Chars(4, "x") \o <<"-">> \o Chars(12, "x")

\* what precedes the last part of a name; NoPrefix is a name of one part
NoPrefix == <<"none">>

Prefixes == {NoPrefix, <<>>, <<"p">>, <<"p", "_", "s">>, <<"p", "_">>, <<"-", "-">>}

LastParts ==
    {Token(x[1], x[2]) :
        x \in {y \in {0, 1, 35, 36, 37} \X {0, 1, 3, 4, 5} : y[2] <= y[1]}}
        \cup {UUIDToken, Chars(36, "-")}

\* the names DetectIndexTarget is called with
DetectNames ==
    {IF pre = NoPrefix THEN last ELSE pre \o <<"_">> \o last :
        pre \in Prefixes, last \in LastParts}

MaxDetectCalls == 2

\* one call DetectIndexTarget(dName)
Detect ==
    /\ dCalls < MaxDetectCalls
    /\ dTarget' = DetectIndexTarget(dName)
    /\ dFirst' = IF dCalls = 0 THEN DetectIndexTarget(dName) ELSE dFirst
    /\ dCalls' = dCalls + 1
    /\ UNCHANGED <<dName, mutVars, opsVars, resVars, regVars>>

DetIdle ==
    /\ dName = <<>>
    /\ dTarget = NotCalled
    /\ dFirst = NotCalled
    /\ dCalls = 0

-----------------------------------------------------------------------------
(* Configuration and registry                                              *)

\* An address with what url.Parse makes of it.
Address(text, err, scheme, host) ==
    [text |-> text, err |-> err, Scheme |-> scheme, Host |-> host]

AddrV8 == Address("http://es-8:9200", FALSE, "http", "es-8:9200")

AddrV9 == Address("https://es-9:9200", FALSE, "https", "es-9:9200")

AddrUnparsable == Address("es-8:9200/", TRUE, "", "")

AddrPathOnly == Address("/es", FALSE, "", "")

AddrNoHost == Address("http:///es", FALSE, "http", "")

AddressLists ==
    { <<>>, <<AddrV8>>, <<AddrV9, AddrNoHost>>, <<AddrUnparsable>>, <<AddrPathOnly>>,
      <<AddrNoHost, AddrV8>> }

ClusterKeys == {"", "gold", "silver"}

Versions == {7, 8, 9}

ClusterConfigs == [Name : {"gold", "silver"}, Version : Versions, Addresses : AddressLists]

MaxClusters == 2

\* Config values: DefaultCluster and the Clusters map
Configs ==
    UNION {[DefaultCluster : ClusterKeys, Clusters : [keys -> ClusterConfigs]] :
             keys \in {k \in SUBSET ClusterKeys : Cardinality(k) <= MaxClusters}}

ErrEmptyClusters == "clusters map is empty"

ErrNoDefaultCluster == "default cluster name not specified"

ErrDefaultClusterNotFound == "default cluster not found in clusters map"

ErrEmptyClusterName == "cluster name is empty"

ErrEmptyClusterAddresses == "cluster has no addresses"

ErrInvalidESVersion == "cluster has invalid ES version"

ErrClusterNotFound == "cluster not found in registry"

ErrInvalidBaseURL == "cluster has invalid base URL"

ErrCreateClient == "failed to create ES client"

\* the checks Validate makes on one cluster, without the version check
clusterErr_NoVersion(name, cluster) ==
    IF name = "" THEN ErrEmptyClusterName
    ELSE IF Len(cluster.Addresses) = 0 THEN ErrEmptyClusterAddresses
    ELSE NoErr

\* the checks Validate makes on one cluster, in their order
clusterErr(name, cluster) ==
    IF name = "" THEN ErrEmptyClusterName
    ELSE IF Len(cluster.Addresses) = 0 THEN ErrEmptyClusterAddresses
    ELSE IF cluster.Version # 8 /\ cluster.Version # 9 THEN ErrInvalidESVersion
    ELSE NoErr

\* Config.Validate: the errors it can return (NoErr for nil).  The
\* clusters are visited in the order of a Go map, which is any order, and
\* the first one that fails a check decides.
ValidateResults(c) ==
    LET keys == DOMAIN c.Clusters
        bad  == {clusterErr(name, c.Clusters[name]) : name \in keys} \ {NoErr}
    IN  IF keys = {} THEN {ErrEmptyClusters}
        ELSE IF c.DefaultCluster = "" THEN {ErrNoDefaultCluster}
        ELSE IF c.DefaultCluster \notin keys THEN {ErrDefaultClusterNotFound}
        ELSE IF bad # {} THEN bad
        ELSE {NoErr}

\* the ESClient made for a cluster, named by what it was made from
ESClient(version, baseURL) == [Version |-> version, BaseURL |-> baseURL]

NilESClient == ESClient(0, "")

Entry(name, version, baseURL, es) ==
    [Name |-> name, Version |-> version, BaseURL |-> baseURL, ES |-> es]

ZeroEntry == Entry("", 0, "", NilESClient)

Registry(built, defaultName, byName) ==
    [built |-> built, defaultName |-> defaultName, byName |-> byName]

NoRegistry == Registry(FALSE, "", <<>>)

\* the check of the base URL: Addresses[0] parsed, scheme and host present
baseURLOK(cluster) ==
    LET u == cluster.Addresses[1]
    IN  ~u.err /\ u.Scheme # "" /\ u.Host # ""

\* the entry recorded for a cluster
entryOf(name, cluster) ==
    Entry(name, cluster.Version, cluster.Addresses[1].text,
          ESClient(cluster.Version, cluster.Addresses[1].text))

\* NewRegistryFromConfig after a Validate that returned nil: the
\* [reg, err] pairs it can return.  The clusters are visited in any
\* order; the first whose base URL is refused or whose vendor client
\* cannot be made ends the construction.
buildResults(c) ==
    LET keys   == DOMAIN c.Clusters
        badURL == {name \in keys : ~baseURLOK(c.Clusters[name])}
    IN  {[reg |-> NoRegistry, err |-> ErrInvalidBaseURL] : name \in badURL}
        \cup {[reg |-> NoRegistry, err |-> ErrCreateClient] : name \in keys \ badURL}
        \cup (IF badURL = {}
              THEN {[reg |-> Registry(TRUE, c.DefaultCluster,
                                      [name \in keys |-> entryOf(name, c.Clusters[name])]),
                     err |-> NoErr]}
              ELSE {})

\* one call cfg.Validate()
Validate ==
    /\ gValid = NotCalled
    /\ gValid' \in ValidateResults(gCfg)
    /\ UNCHANGED <<gCfg, gReg, gErr, gCall, gRet, gPrevCall, gPrevRet>>
    /\ UNCHANGED <<mutVars, opsVars, resVars, detVars>>

\* one call NewRegistryFromConfig(cfg)
NewRegistryFromConfig ==
    /\ gErr = NotCalled
    /\ \E v \in ValidateResults(gCfg) :
         IF v # NoErr
         THEN gReg' = NoRegistry /\ gErr' = v
         ELSE \E r \in buildResults(gCfg) : gReg' = r.reg /\ gErr' = r.err
    /\ UNCHANGED <<gCfg, gValid, gCall, gRet, gPrevCall, gPrevRet>>
    /\ UNCHANGED <<mutVars, opsVars, resVars, detVars>>

\* the names the registry is asked for
LookupNames == {"", "gold", "silver", "nonexistent"}

Lookup(op, name) == [op |-> op, name |-> name]

NoLookup == Lookup("none", "")

\* result of a lookup: the entry (GetEntry), the client (GetClient,
\* Default), the names (ListClusters), the error
LookupRet(entry, client, names, err) ==
    [entry |-> entry, client |-> client, names |-> names, err |-> err]

NoLookupRet == LookupRet(ZeroEntry, NilESClient, <<>>, NotCalled)

\* GetEntry without the default for the empty name
RegistryGetEntry_NoDefault(reg, clusterName) ==
    IF clusterName \in DOMAIN reg.byName
    THEN LookupRet(reg.byName[clusterName], NilESClient, <<>>, NoErr)
    ELSE LookupRet(ZeroEntry, NilESClient, <<>>, ErrClusterNotFound)

\* Registry.GetEntry
RegistryGetEntry(reg, clusterName) ==
    LET name == IF clusterName = "" THEN reg.defaultName ELSE clusterName
    IN  IF name \in DOMAIN reg.byName
        THEN LookupRet(reg.byName[name], NilESClient, <<>>, NoErr)
        ELSE LookupRet(ZeroEntry, NilESClient, <<>>, ErrClusterNotFound)

\* Registry.GetClient
RegistryGetClient(reg, clusterName) ==
    LET name == IF clusterName = "" THEN reg.defaultName ELSE clusterName
    IN  IF name \in DOMAIN reg.byName
        THEN LookupRet(ZeroEntry, reg.byName[name].ES, <<>>, NoErr)
        ELSE LookupRet(ZeroEntry, NilESClient, <<>>, ErrClusterNotFound)

\* the orders in which a Go map of these keys can be ranged over
Orders(keys) ==
    {o \in UNION {[1..n -> keys] : n \in {Cardinality(keys)}} :
        \A i, j \in DOMAIN o : i # j => o[i] # o[j]}

\* a lookup on the registry that was built; reg is never assigned
LookupStep(call, ret) ==
    /\ gReg.built
    /\ gCall' = call
    /\ gRet' = ret
    /\ gPrevCall' = gCall
    /\ gPrevRet' = gRet
    /\ UNCHANGED <<gCfg, gValid, gReg, gErr, mutVars, opsVars, resVars, detVars>>

GetEntry ==
    \E name \in LookupNames :
        LookupStep(Lookup("GetEntry", name), RegistryGetEntry(gReg, name))

GetClient ==
    \E name \in LookupNames :
        LookupStep(Lookup("GetClient", name), RegistryGetClient(gReg, name))

Default ==
    LookupStep(Lookup("Default", ""), RegistryGetClient(gReg, gReg.defaultName))

ListClusters ==
    \E names \in Orders(DOMAIN gReg.byName) :
        LookupStep(Lookup("ListClusters", ""),
                   LookupRet(ZeroEntry, NilESClient, names, NoErr))

RegIdle ==
    /\ gCfg = [DefaultCluster |-> "", Clusters |-> <<>>]
    /\ gValid = NotCalled
    /\ gReg = NoRegistry
    /\ gErr = NotCalled
    /\ gCall = NoLookup
    /\ gRet = NoLookupRet
    /\ gPrevCall = NoLookup
    /\ gPrevRet = NoLookupRet

-----------------------------------------------------------------------------
(* Resolver: registry, metadata service, cache keys                        *)

StatusOK == 200

StatusMultipleChoices == 300

\* cluster names of the registry the resolver was built from
ClusterNames == {"c0", "c1"}

defaultName == "c0"

NilClient == ""

\* r.clients: one Client per registry entry, named here by its cluster
clients == [c \in ClusterNames |-> c]

defaultClient == clients[defaultName]

ProductTree == <<"p", "r", "o", "d", "u", "c", "t", "_", "t", "r", "e", "e">>

ProductsPrefix == <<"p", "r", "o", "d", "u", "c", "t", "s", "_">>

\* the default mapping NewResolver installs
indexPrefixMap == [k \in {ProductTree} |-> ProductsPrefix]

\* getIndexPrefix ignoring the prefix mapping
getIndexPrefix_KindOnly(indexType) == indexType \o <<"_">>

getIndexPrefix(indexType) ==
    IF indexType \in DOMAIN indexPrefixMap
    THEN indexPrefixMap[indexType]
    ELSE indexType \o <<"_">>

SettingsPrefix == <<"e", "s", "_", "s", "e", "t", "t", "i", "n", "g", "s", "_">>

\* fmt.Sprintf("es_settings_%s_%s", companyID, indexType)
cacheKey(companyID, indexType) ==
    SettingsPrefix \o companyID \o <<"_">> \o indexType

\* fmt.Sprintf("es_settings_%s_*", companyID)
scanPattern(companyID) == SettingsPrefix \o companyID \o <<"_", "*">>

\* Redis glob matching of SCAN MATCH: * is any run of characters, ? any
\* one character, every other character stands for itself
RECURSIVE GlobMatch(_, _)
GlobMatch(pattern, key) ==
    IF pattern = <<>> THEN key = <<>>
    ELSE IF Head(pattern) = "*"
    THEN \/ GlobMatch(Tail(pattern), key)
         \/ key # <<>> /\ GlobMatch(pattern, Tail(key))
    ELSE /\ key # <<>>
         /\ Head(pattern) = "?" \/ Head(pattern) = Head(key)
         /\ GlobMatch(Tail(pattern), Tail(key))

\* ClusterInfo
Info(name, id, index) == [ClusterName |-> name, ClusterID |-> id, IndexName |-> index]

ZeroInfo == Info("", 0, <<>>)

\* A JSON text as stored in Redis or sent by the metadata service: either
\* text that does not decode into a ClusterInfo, or an object with the
\* three fields (a field left out of the text reads as its zero value).
Json(name, id, index) ==
    [valid |-> TRUE, cluster_name |-> name, cluster_id |-> id, index_name |-> index]

Garbage == [valid |-> FALSE, cluster_name |-> "", cluster_id |-> 0, index_name |-> <<>>]

\* json.Marshal(info)
Marshal(info) == Json(info.ClusterName, info.ClusterID, info.IndexName)

\* json.Unmarshal(text, &info)
Unmarshal(text) ==
    IF text.valid
    THEN [err |-> FALSE, info |-> Info(text.cluster_name, text.cluster_id, text.index_name)]
    ELSE [err |-> TRUE, info |-> ZeroInfo]

Index1 == <<"i", "1">>

CompanyA == <<"a">>

CompanyAProduct == <<"a", "_", "p", "r", "o", "d", "u", "c", "t">>

KindTree == <<"t", "r", "e", "e">>

\* companyID and indexType arguments; the empty string is one of them
Companies == {<<>>, CompanyA, CompanyAProduct}

Kinds == {<<>>, KindTree, ProductTree}

\* the keys of the keyspace, in the order a SCAN cursor passes them
ScanOrder ==
    << cacheKey(CompanyAProduct, ProductTree),
       cacheKey(CompanyA, ProductTree),
       cacheKey(CompanyA, KindTree) >>

AllKeys == {ScanOrder[i] : i \in 1..Len(ScanOrder)}

\* values a key can hold before the resolver runs (written by an earlier
\* process or by another service)
StoredValues ==
    { Garbage, Json("c1", 7, Index1), Json("", 0, <<>>), Json("cX", 9, Index1) }

\* the values among them that the resolver itself writes; the values it
\* never writes are stored under one key only, the first the SCAN passes
StoredRoutes == {Json("c1", 7, Index1), Json("cX", 9, Index1)}

\* answers of the metadata service
Answer(neterr, status, body) == [neterr |-> neterr, status |-> status, body |-> body]

SyncAnswers ==
    { Answer(TRUE, 0, Garbage),
      Answer(FALSE, 400, Garbage),
      Answer(FALSE, 404, Garbage),
      Answer(FALSE, 500, Garbage),
      Answer(FALSE, 201, Json("c1", 7, Index1)),
      Answer(FALSE, 200, Garbage),
      Answer(FALSE, 200, Json("", 0, <<>>)),
      Answer(FALSE, 200, Json("c1", 7, Index1)),
      Answer(FALSE, 200, Json("cX", 9, Index1)) }

NoAnswer == Answer(FALSE, 0, Garbage)

\* a (tenant, kind) pair as the metadata service is asked about it
Pair(companyID, indexType) == [company_id |-> companyID, type |-> indexType]

NoPair == Pair(<<>>, <<>>)

\* the pair whose migration is followed: not migrated at first, migrated
\* for good later
Sync(pair, migrated) == [pair |-> pair, migrated |-> migrated]

NoSync == Sync(NoPair, FALSE)

\* the route the service gives once it has migrated the pair
MigratedAnswer == Answer(FALSE, 200, Json("c1", 7, Index1))

ErrCompanyIDRequired == "company ID is required"

ErrIndexTypeRequired == "index type is required"

ErrSync == "failed to fetch from sync service"

ErrClusterNotInMap == "cluster not found in clients map"

ErrRedis == "redis command failed"

ErrCacheMiss == "cache miss"

ErrUnmarshal == "failed to unmarshal cached info"

\* result of a resolver call: client is the cluster whose Client is
\* returned (NilClient for nil), hasInfo tells a nil *ClusterInfo apart
Ret(err, client, indexName, hasInfo, info) ==
    [err |-> err, client |-> client, indexName |-> indexName,
     hasInfo |-> hasInfo, info |-> info]

NoRet == Ret(NotCalled, NilClient, <<>>, FALSE, ZeroInfo)

\* the caller's context.Context: not cancelled, cancelled, or no call on record
CtxLive == "live"

CtxCancelled == "cancelled"

NoCtx == "none"

\* getFromCache answering a missing key with the default cluster
getFromCache_MissAsDefault(companyID, indexType, up) ==
    LET key == cacheKey(companyID, indexType)
    IN  IF ~up THEN [err |-> ErrRedis, info |-> ZeroInfo]
        ELSE IF key \notin DOMAIN redis THEN [err |-> NoErr, info |-> Info(defaultName, 0, <<>>)]
        ELSE IF Unmarshal(redis[key]).err THEN [err |-> ErrUnmarshal, info |-> ZeroInfo]
        ELSE [err |-> NoErr, info |-> Unmarshal(redis[key]).info]

\* getFromCache: the Redis GET (up tells whether Redis answered) and the decode
getFromCache(companyID, indexType, up) ==
    LET key == cacheKey(companyID, indexType)
    IN  IF ~up THEN [err |-> ErrRedis, info |-> ZeroInfo]
        ELSE IF key \notin DOMAIN redis THEN [err |-> ErrCacheMiss, info |-> ZeroInfo]
        ELSE IF Unmarshal(redis[key]).err THEN [err |-> ErrUnmarshal, info |-> ZeroInfo]
        ELSE [err |-> NoErr, info |-> Unmarshal(redis[key]).info]

NoRead == [err |-> NotCalled, info |-> ZeroInfo]

\* fetchFromSync taking every failure for "not migrated"
fetchFromSync_FailureAsNil(answer) ==
    IF answer.neterr \/ answer.status # StatusOK \/ Unmarshal(answer.body).err
    THEN [err |-> NoErr, nil |-> TRUE, info |-> ZeroInfo]
    ELSE IF Unmarshal(answer.body).info.ClusterName = ""
    THEN [err |-> NoErr, nil |-> TRUE, info |-> ZeroInfo]
    ELSE [err |-> NoErr, nil |-> FALSE, info |-> Unmarshal(answer.body).info]

\* fetchFromSync: nil tells the (nil, nil) result of "not migrated"
fetchFromSync(answer) ==
    IF answer.neterr THEN [err |-> ErrSync, nil |-> TRUE, info |-> ZeroInfo]
    ELSE IF answer.status = 400 \/ answer.status = 404
    THEN [err |-> NoErr, nil |-> TRUE, info |-> ZeroInfo]
    ELSE IF answer.status # StatusOK
    THEN [err |-> ErrSync, nil |-> TRUE, info |-> ZeroInfo]
    ELSE IF Unmarshal(answer.body).err
    THEN [err |-> ErrSync, nil |-> TRUE, info |-> ZeroInfo]
    ELSE IF Unmarshal(answer.body).info.ClusterName = ""
    THEN [err |-> NoErr, nil |-> TRUE, info |-> ZeroInfo]
    ELSE [err |-> NoErr, nil |-> FALSE, info |-> Unmarshal(answer.body).info]

\* what the service can answer a request for a pair: anything for a pair
\* that is not followed; for the followed pair no route before its
\* migration and the migrated route after it
SyncAnswersFor(companyID, indexType) ==
    IF sync.pair # Pair(companyID, indexType) THEN SyncAnswers
    ELSE IF sync.migrated THEN {MigratedAnswer}
    ELSE {a \in SyncAnswers : fetchFromSync(a).err # NoErr \/ fetchFromSync(a).nil}

\* what httpClient.Do gives the call: an error once the caller's context
\* is cancelled, else what the service answers
HTTPAnswers(companyID, indexType) ==
    IF rCtx = CtxCancelled
    THEN {Answer(TRUE, 0, Garbage)}
    ELSE SyncAnswersFor(companyID, indexType)

\* getClient handing out the default Client for a name it does not know
getClient_Default(clusterName) ==
    IF clusterName \in DOMAIN clients
    THEN [client |-> clients[clusterName], err |-> NoErr]
    ELSE [client |-> clients[defaultName], err |-> NoErr]

\* getClient: the Client and the error
getClient(clusterName) ==
    IF clusterName \in DOMAIN clients
    THEN [client |-> clients[clusterName], err |-> NoErr]
    ELSE [client |-> NilClient, err |-> ErrClusterNotInMap]

\* the configured cacheTTL in hours (NewResolver's default)
CacheTTL == 24

\* the write issued under the key of the index type alone
cacheWrite_KindKey(companyID, indexType, info) ==
    [key |-> cacheKey(<<>>, indexType), val |-> Marshal(info), ttl |-> CacheTTL]

\* the write the saveToCache goroutine will issue
cacheWrite(companyID, indexType, info) ==
    [key |-> cacheKey(companyID, indexType), val |-> Marshal(info), ttl |-> CacheTTL]

-----------------------------------------------------------------------------
(* Resolver operations.  One caller uses the resolver at a time; the       *)
(* background cache writes of earlier calls and the expiry of keys run     *)
(* concurrently with it.                                                   *)

MaxPending == 1

Call(op, companyID, indexType) == [op |-> op, companyID |-> companyID, indexType |-> indexType]

NoCall == Call("none", <<>>, <<>>)

\* a DEL that removes nothing
RedisDel_Noop(key) == redis

RedisDel(key) == [k \in DOMAIN redis \ {key} |-> redis[k]]

RedisSet(key, val) == [k \in DOMAIN redis \cup {key} |-> IF k = key THEN val ELSE redis[k]]

\* the cache lookup never counting as a hit
CacheHit_Never(read) == FALSE

\* a usable cache entry: read without error, decoded, ClusterName not empty
CacheHit(read) == read.err = NoErr /\ read.info.ClusterName # ""

\* what Resolve / ResolveRaw return for a ClusterInfo from cache or service
routeRet(op, info) ==
    IF op = "Resolve"
    THEN Ret(getClient(info.ClusterName).err, getClient(info.ClusterName).client,
             info.IndexName, FALSE, ZeroInfo)
    ELSE Ret(NoErr, NilClient, <<>>, TRUE, info)

\* the fallback of ResolveRaw naming the index <indexType>_<companyID>
fallbackRet_RawKindPrefix(op, companyID, indexType) ==
    IF op = "Resolve"
    THEN Ret(NoErr, defaultClient, getIndexPrefix(indexType) \o companyID, FALSE, ZeroInfo)
    ELSE Ret(NoErr, NilClient, <<>>, TRUE,
             Info(defaultName, 0, indexType \o <<"_">> \o companyID))

\* what they return when the index is not migrated yet
fallbackRet(op, companyID, indexType) ==
    LET indexName == getIndexPrefix(indexType) \o companyID
    IN  IF op = "Resolve"
        THEN Ret(NoErr, defaultClient, indexName, FALSE, ZeroInfo)
        ELSE Ret(NoErr, NilClient, <<>>, TRUE, Info(defaultName, 0, indexName))

\* the entry of Resolve / ResolveRaw without the check of the index type
ResolveBegin_NoKindCheck(op) ==
    /\ rPc = "idle"
    /\ Cardinality(rPending) < MaxPending
    /\ \E companyID \in Companies, indexType \in Kinds, up \in BOOLEAN :
         LET read == getFromCache(companyID, indexType, up)
         IN  /\ rCall' = Call(op, companyID, indexType)
             /\ rHTTP' = NoAnswer
             /\ rSched' = {}
             /\ rCtx' = CtxLive
             /\ IF companyID = <<>>
                THEN /\ rRet' = Ret(ErrCompanyIDRequired, NilClient, <<>>, FALSE, ZeroInfo)
                     /\ rRead' = NoRead
                     /\ rPc' = "idle"
                ELSE /\ rRead' = read
                     /\ IF CacheHit(read)
                        THEN rRet' = routeRet(op, read.info) /\ rPc' = "idle"
                        ELSE rRet' = NoRet /\ rPc' = "fetch"
    /\ sCursor' = 0
    /\ sDeleted' = {}
    /\ UNCHANGED <<redis, rPending, sync, mutVars, opsVars, detVars, regVars>>

\* what Resolve / ResolveRaw return after the remote fetch
fetchRet(op, companyID, indexType, answer) ==
    LET f == fetchFromSync(answer)
    IN  IF f.err # NoErr
        THEN Ret(ErrSync, NilClient, <<>>, FALSE, ZeroInfo)
        ELSE IF f.nil \/ f.info.ClusterName = ""
        THEN fallbackRet(op, companyID, indexType)
        ELSE routeRet(op, f.info)

\* what a call returns that read `read` from the cache and, on a miss,
\* got `answer` from the metadata service
resolveWith(op, companyID, indexType, read, answer) ==
    IF CacheHit(read)
    THEN routeRet(op, read.info)
    ELSE fetchRet(op, companyID, indexType, answer)

\* Resolve / ResolveRaw up to and including the cache lookup
ResolveBegin(op) ==
    /\ rPc = "idle"
    /\ Cardinality(rPending) < MaxPending
    /\ \E companyID \in Companies, indexType \in Kinds, up \in BOOLEAN :
         LET read == getFromCache(companyID, indexType, up)
         IN  /\ rCall' = Call(op, companyID, indexType)
             /\ rHTTP' = NoAnswer
             /\ rSched' = {}
             /\ rCtx' = CtxLive
             /\ IF companyID = <<>>
                THEN /\ rRet' = Ret(ErrCompanyIDRequired, NilClient, <<>>, FALSE, ZeroInfo)
                     /\ rRead' = NoRead
                     /\ rPc' = "idle"
                ELSE IF indexType = <<>>
                THEN /\ rRet' = Ret(ErrIndexTypeRequired, NilClient, <<>>, FALSE, ZeroInfo)
                     /\ rRead' = NoRead
                     /\ rPc' = "idle"
                ELSE /\ rRead' = read
                     /\ IF CacheHit(read)
                        THEN rRet' = routeRet(op, read.info) /\ rPc' = "idle"
                        ELSE rRet' = NoRet /\ rPc' = "fetch"
    /\ sCursor' = 0
    /\ sDeleted' = {}
    /\ UNCHANGED <<redis, rPending, sync, mutVars, opsVars, detVars, regVars>>

\* Resolve / ResolveRaw from the remote fetch to the return
ResolveFetch ==
    /\ rPc = "fetch"
    /\ \E answer \in HTTPAnswers(rCall.companyID, rCall.indexType) :
         LET f == fetchFromSync(answer)
             w == cacheWrite(rCall.companyID, rCall.indexType, f.info)
         IN  /\ rHTTP' = answer
             /\ rRet' = fetchRet(rCall.op, rCall.companyID, rCall.indexType, answer)
             /\ IF f.err # NoErr \/ f.nil \/ f.info.ClusterName = ""
                THEN UNCHANGED <<rSched, rPending>>
                ELSE /\ rSched' = {w}
                     /\ rPending' = rPending \cup {w}
    /\ rPc' = "idle"
    /\ UNCHANGED <<redis, rCall, rRead, rCtx, sCursor, sDeleted, sync, mutVars, opsVars, detVars,
                   regVars>>

Resolve == ResolveBegin("Resolve")

ResolveRaw == ResolveBegin("ResolveRaw")

\* rCall, rRead, rHTTP, rRet, rSched, rCtx, sCursor and sDeleted describe the
\* call in progress or the call that has just returned: they are cleared
\* when Redis changes behind a caller that is not inside a call
CallRecordAfterChange ==
    IF rPc = "idle"
    THEN /\ rCall' = NoCall
         /\ rRead' = NoRead
         /\ rHTTP' = NoAnswer
         /\ rRet' = NoRet
         /\ rSched' = {}
         /\ rCtx' = NoCtx
         /\ sCursor' = 0
         /\ sDeleted' = {}
    ELSE UNCHANGED <<rCall, rRead, rHTTP, rRet, rSched, rCtx, sCursor, sDeleted>>

\* the goroutine running under the caller's context: no SET once the
\* caller has cancelled
save_CallerCtx(w, ok) ==
    /\ w \in rPending
    /\ ok => ~(rCtx = CtxCancelled /\ w \in rSched)
    /\ rPending' = rPending \ {w}
    /\ redis' = IF ok THEN RedisSet(w.key, w.val) ELSE redis
    /\ CallRecordAfterChange
    /\ UNCHANGED <<rPc, sync, mutVars, opsVars, detVars, regVars>>

\* the goroutine running saveToCache for the write w under its own
\* context (context.Background with a 2-second deadline): the SET lands
\* (ok), or fails / runs into the deadline
save(w, ok) ==
    /\ w \in rPending
    /\ rPending' = rPending \ {w}
    /\ redis' = IF ok THEN RedisSet(w.key, w.val) ELSE redis
    /\ CallRecordAfterChange
    /\ UNCHANGED <<rPc, sync, mutVars, opsVars, detVars, regVars>>

saveToCache == \E w \in rPending, ok \in BOOLEAN : save(w, ok)

InvalidateCache ==
    /\ rPc = "idle"
    /\ \E companyID \in Companies, indexType \in Kinds, up \in BOOLEAN :
         /\ rCall' = Call("InvalidateCache", companyID, indexType)
         /\ redis' = IF up THEN RedisDel(cacheKey(companyID, indexType)) ELSE redis
         /\ rRet' = Ret(IF up THEN NoErr ELSE ErrRedis, NilClient, <<>>, FALSE, ZeroInfo)
         /\ sDeleted' = IF up THEN DOMAIN redis \cap {cacheKey(companyID, indexType)}
                        ELSE {}
    /\ rRead' = NoRead
    /\ rHTTP' = NoAnswer
    /\ rSched' = {}
    /\ rCtx' = CtxLive
    /\ sCursor' = 0
    /\ UNCHANGED <<rPc, rPending, sync, mutVars, opsVars, detVars, regVars>>

\* InvalidateCompanyCache: the SCAN is opened
InvalidateCompanyCache ==
    /\ rPc = "idle"
    /\ \E companyID \in Companies :
         rCall' = Call("InvalidateCompanyCache", companyID, <<>>)
    /\ rPc' = "scan"
    /\ sCursor' = 0
    /\ sDeleted' = {}
    /\ rRet' = NoRet
    /\ rRead' = NoRead
    /\ rHTTP' = NoAnswer
    /\ rSched' = {}
    /\ rCtx' = CtxLive
    /\ UNCHANGED <<redis, rPending, sync, mutVars, opsVars, detVars, regVars>>

\* the keys a scan step deletes: the one under the cursor if it matches
\* the scan deleting every key it passes
scanVictims_All(key, pattern) == IF key \in DOMAIN redis THEN {key} ELSE {}

scanVictims(key, pattern) ==
    IF key \in DOMAIN redis /\ GlobMatch(pattern, key) THEN {key} ELSE {}

\* InvalidateCompanyCache: the cursor passes one key; a matching key is
\* deleted; the call returns when the cursor is through or Redis fails
ScanStep ==
    /\ rPc = "scan"
    /\ \E up \in BOOLEAN :
         LET key     == ScanOrder[sCursor + 1]
             victims == scanVictims(key, scanPattern(rCall.companyID))
         IN  IF ~up
             THEN /\ rRet' = Ret(ErrRedis, NilClient, <<>>, FALSE, ZeroInfo)
                  /\ rPc' = "idle"
                  /\ UNCHANGED <<redis, sCursor, sDeleted>>
             ELSE /\ redis' = [k \in DOMAIN redis \ victims |-> redis[k]]
                  /\ sDeleted' = sDeleted \cup victims
                  /\ sCursor' = sCursor + 1
                  /\ IF sCursor + 1 = Len(ScanOrder)
                     THEN rRet' = Ret(NoErr, NilClient, <<>>, FALSE, ZeroInfo) /\ rPc' = "idle"
                     ELSE UNCHANGED <<rRet, rPc>>
    /\ UNCHANGED <<rCall, rRead, rHTTP, rSched, rCtx, rPending, sync, mutVars, opsVars, detVars,
                   regVars>>

\* a key reaches its TTL
RedisExpire ==
    /\ \E key \in DOMAIN redis : redis' = RedisDel(key)
    /\ CallRecordAfterChange
    /\ UNCHANGED <<rPc, rPending, sync, mutVars, opsVars, detVars, regVars>>

\* the metadata service starts to answer the followed pair, whose
\* fallback has just been returned, with its migrated route, and keeps to it
SyncMigrate ==
    /\ rPc = "idle"
    /\ rCall.op = "Resolve"
    /\ ~CacheHit(rRead)
    /\ rHTTP # NoAnswer
    /\ fetchFromSync(rHTTP).err = NoErr
    /\ fetchFromSync(rHTTP).nil
    /\ sync = Sync(Pair(rCall.companyID, rCall.indexType), FALSE)
    /\ sync' = Sync(sync.pair, TRUE)
    /\ rCall' = NoCall
    /\ rRead' = NoRead
    /\ rHTTP' = NoAnswer
    /\ rRet' = NoRet
    /\ rSched' = {}
    /\ rCtx' = NoCtx
    /\ UNCHANGED <<redis, rPc, rPending, sCursor, sDeleted, mutVars, opsVars, detVars,
                   regVars>>

\* the caller cancels the context it passed to Resolve / ResolveRaw,
\* while the call waits for the metadata service or after it has returned
CancelCtx ==
    /\ rCall.op \in {"Resolve", "ResolveRaw"}
    /\ rCtx = CtxLive
    /\ rCtx' = CtxCancelled
    /\ UNCHANGED <<redis, rPc, rCall, rRead, rHTTP, rRet, rSched, rPending, sCursor,
                   sDeleted, sync, mutVars, opsVars, detVars, regVars>>

ResIdle ==
    /\ sync = NoSync
    /\ redis = <<>>
    /\ rPc = "idle"
    /\ rCall = NoCall
    /\ rRead = NoRead
    /\ rHTTP = NoAnswer
    /\ rRet = NoRet
    /\ rSched = {}
    /\ rCtx = NoCtx
    /\ rPending = {}
    /\ sCursor = 0
    /\ sDeleted = {}

-----------------------------------------------------------------------------
(* Operation facade                                                        *)

\* deepCopyMap: a structurally equal map that shares nothing with m
deepCopyMap(m) == m

\* The maps of the copy that are still the caller's own objects, as paths
\* of keys from the top of the document.  deepCopyValue builds a new map
\* for a map[string]any and a new slice for a []any and returns every
\* other value itself; no path leads through a slice here because the
\* mutator never assigns below one.
RECURSIVE deepCopyValueShared(_)
deepCopyValueShared(v) ==
    IF v.t = "obj"
    THEN UNION {{<<k>> \o p : p \in deepCopyValueShared(MapGet(v, k))} : k \in MapKeys(v)}
    ELSE IF v.t = "arr"
    THEN {}
    ELSE {<<>>}

\* a copy of the top-level map only: every value is the caller's own
deepCopyMapShared_Shallow(m) ==
    IF m.t = "nil" THEN {<<>>} ELSE {<<k>> : k \in MapKeys(m)}

deepCopyMapShared(m) ==
    IF m.t = "nil"
    THEN {<<>>}
    ELSE UNION {{<<k>> \o p : p \in deepCopyValueShared(MapGet(m, k))} : k \in MapKeys(m)}

\* the maps InjectCompanyFilter assigns an entry of, as paths from the top
\* of the document it is given
injectWrites(query, companyID, target) ==
    LET queryMap  == MapGet(query, "query")
        boolMap   == MapGet(queryMap, "bool")
        filterVal == MapGet(boolMap, "filter")
    IN  IF target = IndexTargetPerCompany \/ companyID = "" THEN {}
        ELSE IF ~IsMap(queryMap)
        THEN IF query.t = "nil" THEN {} ELSE {<<>>}
        ELSE IF IsMap(boolMap)
        THEN IF ~MapHas(boolMap, "filter") \/ filterVal.t \in {"arr", "obj"}
             THEN {<<"query", "bool">>}
             ELSE {}
        ELSE {<<>>}

\* the value at a path of keys
RECURSIVE GetAt(_, _)
GetAt(doc, path) ==
    IF path = <<>> THEN doc ELSE GetAt(MapGet(doc, Head(path)), Tail(path))

\* doc with the value at a path of keys replaced
RECURSIVE SetAt(_, _, _)
SetAt(doc, path, v) ==
    IF path = <<>>
    THEN v
    ELSE MapPut(doc, Head(path), SetAt(MapGet(doc, Head(path)), Tail(path), v))

\* the map at path is one of the shared objects or lies inside one
Aliased(shared, path) == \E i \in 0..Len(path) : SubSeq(path, 1, i) \in shared

\* json.Marshal of a document as the request body: the JSON text of the
\* value; a nil map is written as null
jsonBody(v) == IF v.t = "nil" THEN Null ELSE v

NoRequest == [method |-> "none", index |-> <<>>, endpoint |-> "", body |-> Missing]

ErrIndexRequired == "index name is required"

ErrHTTP == "http request failed"

ErrDecode == "failed to decode JSON response"

ErrStatus == "status error"

OpOK == "ok"

\* what the transport gives back: err is TRUE when the call itself failed
Responses ==
    {[err |-> TRUE, status |-> 0, json |-> FALSE]}
    \cup [err : {FALSE}, status : {200, 201, 404, 500}, json : BOOLEAN]

\* no request was handed to the transport
NoResponse == [err |-> FALSE, status |-> 0, json |-> FALSE]

\* doJSON with a typed out value, followed by the caller's status check
doJSON(resp) ==
    IF resp.err THEN ErrHTTP
    ELSE IF resp.status >= StatusMultipleChoices THEN ErrStatus
    ELSE IF ~resp.json THEN ErrDecode
    ELSE IF resp.status # StatusOK THEN ErrStatus
    ELSE OpOK

QueryOps == {"search", "count", "delete_by_query", "update_by_query"}

Endpoint(op) == "_" \o op

Requests == [op : QueryOps, Index : IndexNames, CompanyID : CompanyIDs, Query : QueryArgs]

\* the shared-index branch without the injection
prepareQuery_NoInject(req) ==
    [query |-> deepCopyMap(req.Query), err |-> NoErr]

\* target detection, copy of the caller's query and injection
prepareQuery(req) ==
    LET target    == DetectIndexTarget(req.Index)
        query     == IF req.op = "count" /\ req.Query.t = "nil"
                     THEN EmptyObj ELSE req.Query
        queryCopy == deepCopyMap(query)
    IN  IF target = IndexTargetShared
        THEN InjectCompanyFilter(queryCopy, req.CompanyID, target)
        ELSE [query |-> queryCopy, err |-> NoErr]

\* the caller's document after the call: an assignment the mutator makes
\* to a map the copy shares with the caller shows in the caller's document
callerQueryAfter(req) ==
    LET target  == DetectIndexTarget(req.Index)
        fresh   == req.op = "count" /\ req.Query.t = "nil"
        query   == IF fresh THEN EmptyObj ELSE req.Query
        shared  == IF fresh THEN {} ELSE deepCopyMapShared(query)
        written == IF target = IndexTargetShared
                   THEN injectWrites(deepCopyMap(query), req.CompanyID, target)
                   ELSE {}
        seen    == {w \in written : Aliased(shared, w)}
    IN  IF seen = {}
        THEN req.Query
        ELSE LET w == CHOOSE x \in seen : TRUE
             IN  SetAt(req.Query, w, GetAt(prepareQuery(req).query, w))

\* the facade handing the request to the transport before it looks at
\* the outcome of the mutation
QueryCall_SendFirst(op, resp) ==
    /\ oResult = NotCalled
    /\ oReq.op = op
    /\ oCaller' = IF oReq.Index = <<>> THEN oCaller ELSE callerQueryAfter(oReq)
    /\ IF oReq.Index = <<>>
       THEN oSent' = NoRequest /\ oResult' = ErrIndexRequired /\ oResp' = NoResponse
       ELSE LET p == prepareQuery(oReq)
            IN  /\ oSent' = [method |-> "POST", index |-> oReq.Index,
                             endpoint |-> Endpoint(op),
                             body |-> jsonBody(p.query)]
                /\ oResp' = resp
                /\ oResult' = IF p.err # NoErr THEN p.err ELSE doJSON(resp)
    /\ UNCHANGED <<oReq, mutVars, resVars, detVars, regVars>>

\* one facade call for a structured-query operation, whole handler:
\* oReq is the request the caller is about to make
QueryCall(op, resp) ==
    /\ oResult = NotCalled
    /\ oReq.op = op
    /\ oCaller' = IF oReq.Index = <<>> THEN oCaller ELSE callerQueryAfter(oReq)
    /\ IF oReq.Index = <<>>
       THEN oSent' = NoRequest /\ oResult' = ErrIndexRequired /\ oResp' = NoResponse
       ELSE LET p == prepareQuery(oReq)
            IN  IF p.err # NoErr
                THEN oSent' = NoRequest /\ oResult' = p.err /\ oResp' = NoResponse
                ELSE /\ oSent' = [method |-> "POST", index |-> oReq.Index,
                                  endpoint |-> Endpoint(op),
                                  body |-> jsonBody(p.query)]
                     /\ oResp' = resp
                     /\ oResult' = doJSON(resp)
    /\ UNCHANGED <<oReq, mutVars, resVars, detVars, regVars>>

Search == \E resp \in Responses : QueryCall("search", resp)

Count_ == \E resp \in Responses : QueryCall("count", resp)

DeleteByQuery == \E resp \in Responses : QueryCall("delete_by_query", resp)

UpdateByQuery == \E resp \in Responses : QueryCall("update_by_query", resp)

OpsIdle ==
    /\ oReq = [op |-> "none", Index |-> <<>>, CompanyID |-> "", Query |-> NilMap]
    /\ oSent = NoRequest
    /\ oResult = NotCalled
    /\ oCaller = NilMap
    /\ oResp = NoResponse

MutIdle ==
    /\ mQuery = NilMap
    /\ mOrig = NilMap
    /\ mBefore = NilMap
    /\ mCompanyID = ""
    /\ mTarget = IndexTargetPerCompany
    /\ mErr = NotCalled
    /\ mApplied = <<>>
    /\ mCalls = 0

InitOps ==
    /\ oReq \in Requests
    /\ oSent = NoRequest
    /\ oResult = NotCalled
    /\ oCaller = oReq.Query
    /\ oResp = NoResponse
    /\ MutIdle
    /\ ResIdle
    /\ DetIdle
    /\ RegIdle

NextOps == Search \/ Count_ \/ DeleteByQuery \/ UpdateByQuery

SpecOps == InitOps /\ [][NextOps]_vars

-----------------------------------------------------------------------------
(* SpecRes: the resolver over a Redis that may hold entries already        *)

InitRes ==
    /\ \E present \in SUBSET AllKeys : redis \in [present -> StoredValues]
    /\ \A k \in DOMAIN redis \ {ScanOrder[1]} : redis[k] \in StoredRoutes
    /\ sync = NoSync
    /\ rPc = "idle"
    /\ rCall = NoCall
    /\ rRead = NoRead
    /\ rHTTP = NoAnswer
    /\ rRet = NoRet
    /\ rSched = {}
    /\ rCtx = NoCtx
    /\ rPending = {}
    /\ sCursor = 0
    /\ sDeleted = {}
    /\ MutIdle
    /\ OpsIdle
    /\ DetIdle
    /\ RegIdle

NextRes ==
    \/ Resolve
    \/ ResolveRaw
    \/ ResolveFetch
    \/ saveToCache
    \/ InvalidateCache
    \/ InvalidateCompanyCache
    \/ ScanStep
    \/ RedisExpire

SpecRes == InitRes /\ [][NextRes]_vars

-----------------------------------------------------------------------------
(* SpecSync: Resolve against a metadata service that migrates a tenant     *)
(* after a fallback                                                        *)

NextSync ==
    \/ Resolve
    \/ ResolveFetch
    \/ saveToCache
    \/ SyncMigrate

\* an empty cache and a pair the service has not migrated yet
InitSync ==
    /\ redis = <<>>
    /\ sync \in {Sync(Pair(c, k), FALSE) : c \in Companies \ {<<>>}, k \in Kinds \ {<<>>}}
    /\ rPc = "idle"
    /\ rCall = NoCall
    /\ rRead = NoRead
    /\ rHTTP = NoAnswer
    /\ rRet = NoRet
    /\ rSched = {}
    /\ rCtx = NoCtx
    /\ rPending = {}
    /\ sCursor = 0
    /\ sDeleted = {}
    /\ MutIdle
    /\ OpsIdle
    /\ DetIdle
    /\ RegIdle

SpecSync == InitSync /\ [][NextSync]_vars

-----------------------------------------------------------------------------
(* SpecLive: Resolve and ResolveRaw over an empty cache with a Redis that  *)
(* accepts every SET inside the deadline and no invalidation call; every   *)
(* goroutine started for a cache write gets to run                         *)

\* every write a call can schedule
CacheWrites ==
    { cacheWrite(c, k, fetchFromSync(a).info) :
        c \in Companies \ {<<>>}, k \in Kinds \ {<<>>},
        a \in {x \in SyncAnswers : fetchFromSync(x).err = NoErr /\ ~fetchFromSync(x).nil} }

\* saveToCache with the SET accepted
saveAccepted == \E w \in rPending : save(w, TRUE)

NextLive ==
    \/ Resolve
    \/ ResolveRaw
    \/ ResolveFetch
    \/ saveAccepted
    \/ RedisExpire

InitLive ==
    /\ redis = <<>>
    /\ sync = NoSync
    /\ rPc = "idle"
    /\ rCall = NoCall
    /\ rRead = NoRead
    /\ rHTTP = NoAnswer
    /\ rRet = NoRet
    /\ rSched = {}
    /\ rCtx = NoCtx
    /\ rPending = {}
    /\ sCursor = 0
    /\ sDeleted = {}
    /\ MutIdle
    /\ OpsIdle
    /\ DetIdle
    /\ RegIdle

\* the Go scheduler runs every goroutine: a write that stays pending is
\* issued
SpecLive ==
    /\ InitLive
    /\ [][NextLive]_vars
    /\ \A w \in CacheWrites : WF_vars(save(w, TRUE))

-----------------------------------------------------------------------------
(* SpecCancel: Resolve and ResolveRaw over an empty cache with a caller    *)
(* that may cancel its context and a Redis that may refuse a SET           *)

NextCancel ==
    \/ Resolve
    \/ ResolveRaw
    \/ ResolveFetch
    \/ saveToCache
    \/ CancelCtx

SpecCancel == InitLive /\ [][NextCancel]_vars

-----------------------------------------------------------------------------
(* SpecMut: InjectCompanyFilter called up to MaxCalls times on a document  *)

MaxCalls == 3

InitMut ==
    /\ mQuery \in QueryArgs
    /\ mOrig = mQuery
    /\ mBefore = mQuery
    /\ mCompanyID = ""
    /\ mTarget = IndexTargetPerCompany
    /\ mErr = NotCalled
    /\ mApplied = <<>>
    /\ mCalls = 0
    /\ OpsIdle
    /\ ResIdle
    /\ DetIdle
    /\ RegIdle

\* one call mutator.InjectCompanyFilter(query, companyID, target)
MutInject ==
    /\ mCalls < MaxCalls
    /\ mErr # Panic
    /\ \E companyID \in CompanyIDs, target \in IndexTargets :
         LET r == InjectCompanyFilter(mQuery, companyID, target)
         IN  /\ mQuery' = r.query
             /\ mBefore' = mQuery
             /\ mCompanyID' = companyID
             /\ mTarget' = target
             /\ mErr' = r.err
             /\ mApplied' = IF target = IndexTargetShared /\ r.err = NoErr
                            THEN Append(mApplied, companyID)
                            ELSE mApplied
             /\ mCalls' = mCalls + 1
    /\ UNCHANGED <<mOrig, opsVars, resVars, detVars, regVars>>

NextMut == MutInject

SpecMut == InitMut /\ [][NextMut]_vars

-----------------------------------------------------------------------------
(* SpecDetect: DetectIndexTarget called on a name, and called again        *)

InitDetect ==
    /\ dName \in DetectNames
    /\ dTarget = NotCalled
    /\ dFirst = NotCalled
    /\ dCalls = 0
    /\ MutIdle
    /\ OpsIdle
    /\ ResIdle
    /\ RegIdle

NextDetect == Detect

SpecDetect == InitDetect /\ [][NextDetect]_vars

-----------------------------------------------------------------------------
(* SpecReg: a Config validated, a registry built from it and looked up     *)

InitReg ==
    /\ gCfg \in Configs
    /\ gValid = NotCalled
    /\ gReg = NoRegistry
    /\ gErr = NotCalled
    /\ gCall = NoLookup
    /\ gRet = NoLookupRet
    /\ gPrevCall = NoLookup
    /\ gPrevRet = NoLookupRet
    /\ MutIdle
    /\ OpsIdle
    /\ ResIdle
    /\ DetIdle

NextReg ==
    \/ Validate
    \/ NewRegistryFromConfig
    \/ GetEntry
    \/ GetClient
    \/ Default
    \/ ListClusters

SpecReg == InitReg /\ [][NextReg]_vars

-----------------------------------------------------------------------------
(* Properties of the query mutator                                         *)

Called == mCalls > 0

\* C5: for every query document and every companyID, the empty one
\* included, a call with the per-tenant target returns no error and leaves
\* the document equal to what it was before the call.
C5_PerTenantIdentity ==
    (Called /\ mTarget = IndexTargetPerCompany)
        => (mErr = NoErr /\ mQuery = mBefore)

C5_Witness ==
    /\ Called
    /\ mTarget = IndexTargetPerCompany
    /\ mCompanyID = ""
    /\ IsMap(MapGet(MapGet(mBefore, "query"), "bool"))
    /\ mErr = NoErr

\* C6: for every query document, a call with the shared target and the
\* empty companyID fails with the company-required error and leaves the
\* document unchanged.
C6_TenantRequired ==
    (Called /\ mTarget = IndexTargetShared /\ mCompanyID = "")
        => (mErr = ErrCompanyRequired /\ mQuery = mBefore)

C6_Witness ==
    /\ Called
    /\ mTarget = IndexTargetShared
    /\ mCompanyID = ""
    /\ mBefore = Obj1("query", matchAllClause)
    /\ mErr = ErrCompanyRequired

\* the last call was a shared-target call with a non-empty companyID
SharedCall == Called /\ mTarget = IndexTargetShared /\ mCompanyID # ""

boolOf(doc) == MapGet(MapGet(doc, "query"), "bool")

filterOf(doc) == MapGet(boolOf(doc), "filter")

\* the document's query is an object holding a bool object
IsBoolQuery(doc) == IsMap(MapGet(doc, "query")) /\ IsMap(boolOf(doc))

\* the filter clauses a bool query holds, in order
PriorClauses(doc) ==
    LET f == filterOf(doc)
    IN  IF f.t = "arr" THEN f.a
        ELSE IF f.t = "obj" THEN <<f>>
        ELSE <<>>

FilterUsable(doc) == filterOf(doc).t \in {"missing", "arr", "obj"}

\* C7: shared target, non-empty companyID, query is a bool object: after
\* the call bool.filter is an array of the prior filter clauses in their
\* order (the elements of a prior array, the single prior object, or
\* nothing when there was no filter) followed by the company term as last
\* element; a prior filter of any other type makes the call fail with the
\* unexpected-filter-type error and leaves the document unchanged.
C7_BoolFilterAppend ==
    (SharedCall /\ IsBoolQuery(mBefore)) =>
        IF FilterUsable(mBefore)
        THEN /\ mErr = NoErr
             /\ filterOf(mQuery) =
                    Arr(PriorClauses(mBefore) \o <<companyFilter(mCompanyID)>>)
        ELSE /\ mErr = ErrUnexpectedFilterType
             /\ mQuery = mBefore

C7_Witness ==
    /\ SharedCall
    /\ filterOf(mBefore) = Arr(<<rangeClause, activeTerm>>)
    /\ mErr = NoErr
    /\ Len(filterOf(mQuery).a) = 3

\* C8 (as claimed): shared target, non-empty companyID: a top-level query
\* key present with any non-bool value Q, object or not, is replaced by
\* {bool: {must: [Q], filter: [companyFilter]}}, and the filter-only form
\* {bool: {filter: [companyFilter]}} is produced only when the document has
\* no top-level query key.
C8_WrapAnyNonBool ==
    (SharedCall /\ IsMap(mBefore) /\ ~IsBoolQuery(mBefore)) =>
        LET cf == companyFilter(mCompanyID)
            Q  == MapGet(mBefore, "query")
        IN  /\ mErr = NoErr
            /\ MapHas(mBefore, "query") =>
                 MapGet(mQuery, "query") =
                    Obj1("bool", Obj2("must", Arr(<<Q>>), "filter", Arr(<<cf>>)))
            /\ MapGet(mQuery, "query") = Obj1("bool", Obj1("filter", Arr(<<cf>>)))
                 => ~MapHas(mBefore, "query")

\* the members of object m other than key k
Others(m, k) == [x \in MapKeys(m) \ {k} |-> MapGet(m, x)]

\* C9: a successful shared-target call changes nothing but the filter
\* clause or, for a non-bool query, the wrapping of query: the top-level
\* siblings of query (sort, aggs, ...) keep their values, the members of a
\* bool query other than filter (must, should, must_not,
\* minimum_should_match) keep theirs, and so do the members of the query
\* object next to bool.
C9_SiblingsPreserved ==
    (SharedCall /\ mErr = NoErr) =>
        /\ Others(mQuery, "query") = Others(mBefore, "query")
        /\ IsBoolQuery(mBefore) =>
             /\ Others(boolOf(mQuery), "filter") = Others(boolOf(mBefore), "filter")
             /\ Others(MapGet(mQuery, "query"), "bool")
                  = Others(MapGet(mBefore, "query"), "bool")

C9_Witness ==
    /\ SharedCall
    /\ mErr = NoErr
    /\ MapHas(mBefore, "sort")
    /\ MapKeys(boolOf(mBefore)) =
         {"filter", "must", "should", "must_not", "minimum_should_match"}
    /\ mQuery # mBefore

\* n copies of value v
Copies(n, v) == [i \in 1..n |-> v]

\* C10: the company term is appended, never deduplicated: after n
\* successful shared-target calls on the same document, all with the same
\* non-empty companyID, bool.filter is the clauses the document started
\* with followed by n identical company terms.
C10_AppendsNoDedup ==
    LET n == Len(mApplied)
    IN  (n > 0 /\ \A i \in 1..n : mApplied[i] = mApplied[1]) =>
            /\ filterOf(mQuery).t = "arr"
            /\ filterOf(mQuery).a =
                 (IF IsBoolQuery(mOrig) THEN PriorClauses(mOrig) ELSE <<>>)
                    \o Copies(n, companyFilter(mApplied[1]))

C10_Witness ==
    /\ mApplied = <<"c1", "c1">>
    /\ filterOf(mOrig) = Arr(<<companyFilter("c1")>>)
    /\ filterOf(mQuery).a = Copies(3, companyFilter("c1"))

-----------------------------------------------------------------------------
(* Properties of the operation facade                                      *)

\* array value arr holds the element e
Includes(arr, e) == arr.t = "arr" /\ \E i \in 1..Len(arr.a) : arr.a[i] = e

C11_CallerQueryUntouched ==
    oResult # NotCalled => oCaller = oReq.Query

C11_Witness ==
    /\ oResult = OpOK
    /\ oReq.op = "update_by_query"
    /\ filterOf(oReq.Query) = Arr(<<rangeClause>>)
    /\ filterOf(oSent.body) = Arr(<<rangeClause, companyFilter("c1")>>)
    /\ oCaller = oReq.Query

-----------------------------------------------------------------------------
(* Properties of the index classification                                  *)

\* name holds a "_" and what follows the last "_" is 36 characters long
\* with exactly four "-" among them
LooksPerTenant(name) ==
    \E i \in 1..Len(name) :
        /\ name[i] = "_"
        /\ \A j \in (i + 1)..Len(name) : name[j] # "_"
        /\ Len(name) - i = 36
        /\ Cardinality({j \in (i + 1)..Len(name) : name[j] = "-"}) = 4

\* C12: DetectIndexTarget(name) returns PerTenant exactly when name split
\* on "_" has at least two parts and the last part is exactly 36
\* characters long with exactly four "-" in it, and Shared for every other
\* string; the result depends on the name alone (a second call on the same
\* name returns what the first returned).
C12_DetectExact ==
    dCalls > 0 =>
        /\ dTarget = IF LooksPerTenant(dName)
                     THEN IndexTargetPerCompany ELSE IndexTargetShared
        /\ dTarget = dFirst

C12_Witness ==
    /\ dCalls = 2
    /\ dName = <<"_">> \o UUIDToken
    /\ dTarget = IndexTargetPerCompany
    /\ dFirst = IndexTargetPerCompany

-----------------------------------------------------------------------------
(* Properties of the configuration and the registry                        *)

ConfigKeys == DOMAIN gCfg.Clusters

C13_State ==
    gReg.built =>
        /\ (gCall.op \in {"GetEntry", "GetClient"} /\ gPrevCall = gCall)
              => gRet = gPrevRet
        /\ gCall = Lookup("GetEntry", "") =>
              /\ gRet.err = NoErr
              /\ gRet.entry.Name = gCfg.DefaultCluster
              /\ gRet.entry = RegistryGetEntry(gReg, gCfg.DefaultCluster).entry
        /\ (gCall.op = "GetEntry" /\ gCall.name \in ConfigKeys) =>
              /\ gRet.err = NoErr
              /\ gRet.entry.Name = gCall.name
              /\ gRet.entry.Version = gCfg.Clusters[gCall.name].Version
        /\ (gCall.op \in {"GetEntry", "GetClient"}
               /\ gCall.name \notin ConfigKeys \cup {""})
              => (gRet.err = ErrClusterNotFound /\ gRet.entry = ZeroEntry
                    /\ gRet.client = NilESClient)
        /\ gCall.op = "Default" =>
              /\ gRet.err = NoErr
              /\ gRet.client = RegistryGetEntry(gReg, gCfg.DefaultCluster).entry.ES
        /\ gCall.op = "ListClusters" =>
              /\ Len(gRet.names) = Cardinality(ConfigKeys)
              /\ {gRet.names[i] : i \in 1..Len(gRet.names)} = ConfigKeys

C13_Step == gReg.built => gReg' = gReg

\* C13: once a registry is built from a valid Config, no sequence of
\* GetEntry, GetClient, Default and ListClusters calls changes it: two
\* lookups of the same name return identical entry contents, a lookup of
\* the empty name returns the default cluster's entry, a lookup of a name
\* that is not a Config key fails with not-found, Default always succeeds,
\* and ListClusters returns a permutation of the Config's cluster keys.
C13_RegistryFrozen == []C13_State /\ [][C13_Step]_vars

C13_Witness ==
    /\ gReg.built
    /\ Cardinality(ConfigKeys) = 2
    /\ gCall = Lookup("GetEntry", "")
    /\ gPrevCall = Lookup("ListClusters", "")
    /\ gPrevRet.names = <<"silver", "gold">>
    /\ gRet.entry.Name = "silver"
    /\ gRet.entry.Version = 9

\* C14 (as claimed): every Config that passes Validate, and so every
\* Config a registry is built from, has its defaultCluster among the keys
\* of clusters, no empty key, and every key equal to the name field of its
\* ClusterConfig.
C14_ValidConfigInvariants ==
    (gValid = NoErr \/ gReg.built) =>
        /\ gCfg.DefaultCluster \in ConfigKeys
        /\ \A key \in ConfigKeys :
             key # "" /\ gCfg.Clusters[key].Name = key

\* the errors whose cause the Config shows
ConfigDefects ==
    {e \in {ErrEmptyClusters, ErrNoDefaultCluster, ErrDefaultClusterNotFound,
            ErrEmptyClusterName, ErrEmptyClusterAddresses, ErrInvalidESVersion} :
        \/ e = ErrEmptyClusters /\ ConfigKeys = {}
        \/ e = ErrNoDefaultCluster /\ gCfg.DefaultCluster = ""
        \/ e = ErrDefaultClusterNotFound /\ gCfg.DefaultCluster \notin ConfigKeys
        \/ e = ErrEmptyClusterName /\ "" \in ConfigKeys
        \/ e = ErrEmptyClusterAddresses
              /\ \E k \in ConfigKeys : gCfg.Clusters[k].Addresses = <<>>
        \/ e = ErrInvalidESVersion
              /\ \E k \in ConfigKeys : gCfg.Clusters[k].Version \notin {8, 9}}

\* some cluster's first address has no scheme or no host
BadBaseURL ==
    \E k \in ConfigKeys :
        LET a == gCfg.Clusters[k].Addresses
        IN  a # <<>> /\ (a[1].err \/ a[1].Scheme = "" \/ a[1].Host = "")

\* C15: Validate rejects a Config with an empty clusters map
\* (EmptyClusters), an empty defaultCluster (NoDefaultCluster), a
\* defaultCluster that is not a key (DefaultClusterNotFound), an empty
\* cluster key (EmptyClusterName), a cluster without addresses
\* (EmptyAddresses) or a version other than 8 or 9 (InvalidVersion), with
\* the error of a defect the Config has; NewRegistryFromConfig rejects
\* these too and also a cluster whose first address lacks a scheme or a
\* host (InvalidBaseURL); in none of these cases a registry is returned.
C15_MalformedRejected ==
    /\ gValid # NotCalled =>
         /\ ConfigDefects # {} => gValid \in ConfigDefects
         /\ ConfigKeys = {} => gValid = ErrEmptyClusters
         /\ (ConfigKeys # {} /\ gCfg.DefaultCluster = "")
              => gValid = ErrNoDefaultCluster
         /\ (ConfigKeys # {} /\ gCfg.DefaultCluster # ""
               /\ gCfg.DefaultCluster \notin ConfigKeys)
              => gValid = ErrDefaultClusterNotFound
    /\ gErr # NotCalled =>
         /\ ConfigDefects # {} => (~gReg.built /\ gErr \in ConfigDefects)
         /\ (ConfigDefects = {} /\ BadBaseURL) =>
              /\ ~gReg.built
              /\ gErr \in {ErrInvalidBaseURL, ErrCreateClient}
              /\ Cardinality(ConfigKeys) = 1 => gErr = ErrInvalidBaseURL
    /\ gReg.built => (gErr = NoErr /\ ConfigDefects = {} /\ ~BadBaseURL)

C15_Witness ==
    /\ gValid = NoErr
    /\ gErr = ErrInvalidBaseURL
    /\ ~gReg.built
    /\ Cardinality(ConfigKeys) = 2
    /\ gCfg.Clusters["gold"].Addresses = <<AddrNoHost, AddrV8>>

-----------------------------------------------------------------------------
(* Properties of the resolver                                              *)

\* the call named op has returned and nothing has happened since
Returned(op) == rCall.op = op /\ rPc = "idle" /\ rRet # NoRet

\* the answers that mean "index not migrated": 400, 404, 200 with an
\* empty cluster_name
NotMigrated(answer) ==
    /\ ~answer.neterr
    /\ \/ answer.status \in {400, 404}
       \/ answer.status = 200 /\ answer.body.valid /\ answer.body.cluster_name = ""

\* the fallback index name: the mapped prefix of the kind if there is
\* one, else the kind and an underscore, followed by the tenant
FallbackIndex(companyID, indexType) ==
    (IF indexType = ProductTree THEN ProductsPrefix ELSE indexType \o <<"_">>)
        \o companyID

C2_State ==
    (Returned("Resolve") /\ ~CacheHit(rRead) /\ NotMigrated(rHTTP)) =>
        /\ rRet.err = NoErr
        /\ rRet.client = "c0"
        /\ rRet.indexName = FallbackIndex(rCall.companyID, rCall.indexType)
        /\ rSched = {}

C2_Step ==
    (rCall.op = "Resolve" /\ rPc = "fetch" /\ rPc' = "idle" /\ NotMigrated(rHTTP'))
        => (redis' = redis /\ rPending' = rPending)

C3_CacheHitNoHTTP ==
    (rCall.op = "Resolve" /\ rRead.err = NoErr /\ rRead.info.ClusterName # "") =>
        LET key == cacheKey(rCall.companyID, rCall.indexType)
        IN  /\ rPc = "idle"
            /\ rHTTP = NoAnswer
            /\ key \in DOMAIN redis
            /\ redis[key].valid
            /\ rRet.indexName = redis[key].index_name

C3_Witness ==
    /\ rCall = Call("Resolve", CompanyA, ProductTree)
    /\ rRead.info = Info("c1", 7, Index1)
    /\ rRet = Ret(NoErr, "c1", Index1, FALSE, ZeroInfo)
    /\ rHTTP = NoAnswer

\* the keys Resolve and ResolveRaw use for company companyID
OwnKeys(companyID) == {cacheKey(companyID, k) : k \in Kinds \ {<<>>}}

\* C4 (as claimed): when InvalidateCompanyCache(T) returns ok it has
\* deleted only keys matching es_settings_T_* and has left the keys of
\* every other tenant in place.
C4_OnlyOwnKeysDeleted ==
    Returned("InvalidateCompanyCache") /\ rRet.err = NoErr =>
        /\ \A key \in sDeleted : GlobMatch(scanPattern(rCall.companyID), key)
        /\ \A other \in Companies \ {<<>>, rCall.companyID} :
             \A key \in OwnKeys(other) \ OwnKeys(rCall.companyID) :
                 key \notin sDeleted

\* the call has both its arguments
ArgsGiven == rCall.companyID # <<>> /\ rCall.indexType # <<>>

\* the answers that make the remote fetch fail: no answer at all, a status
\* other than 200, 400 and 404, or 200 with a body that does not decode
FetchFails(answer) ==
    \/ answer.neterr
    \/ answer.status \notin {200, 400, 404}
    \/ answer.status = 200 /\ ~answer.body.valid

\* what Resolve returns for the cache lookup and the answer the call in
\* rCall has seen
ResolveInSameState ==
    resolveWith("Resolve", rCall.companyID, rCall.indexType, rRead, rHTTP)

\* Resolve returns what ResolveInSameState says
ResolveAsStated ==
    (Returned("Resolve") /\ ArgsGiven) => rRet = ResolveInSameState

\* ResolveRaw fails exactly on a miss followed by a failed fetch, and its
\* index name is the one Resolve returns
RawFailsAndIndex ==
    /\ rRet.err # NoErr <=> (~CacheHit(rRead) /\ FetchFails(rHTTP))
    /\ rRet.err = NoErr =>
         /\ rRet.hasInfo
         /\ rRet.info.IndexName = ResolveInSameState.indexName
         /\ (~CacheHit(rRead) /\ NotMigrated(rHTTP)) =>
              (rRet.info.ClusterName = "c0" /\ rRet.info.ClusterID = 0)

\* C16 (as claimed): in every cache and metadata-service state
\* ResolveRaw(tenant, kind) fails exactly when the cache lookup misses and
\* the remote fetch fails, and otherwise returns a ClusterInfo whose
\* indexName is the index name Resolve returns in the same state and whose
\* clusterName names the cluster whose client Resolve returns; in the
\* fallback case clusterName is the default cluster's name and clusterId 0.
C16_RawMatchesResolve ==
    (Returned("ResolveRaw") /\ ArgsGiven) =>
        /\ RawFailsAndIndex
        /\ rRet.err = NoErr =>
             /\ ResolveInSameState.err = NoErr
             /\ ResolveInSameState.client = rRet.info.ClusterName

\* C16 (amended): as claimed, except that the clusterName names the
\* cluster whose client Resolve returns only when it is a key of the
\* resolver's client map; when it is not, ResolveRaw still returns the
\* ClusterInfo and Resolve fails in the same state with the
\* unknown-cluster error and no client.
C16_RawMatchesResolveKnown ==
    /\ ResolveAsStated
    /\ (Returned("ResolveRaw") /\ ArgsGiven) =>
        /\ RawFailsAndIndex
        /\ rRet.err = NoErr =>
             IF rRet.info.ClusterName \in ClusterNames
             THEN /\ ResolveInSameState.err = NoErr
                  /\ ResolveInSameState.client = rRet.info.ClusterName
             ELSE /\ ResolveInSameState.err = ErrClusterNotInMap
                  /\ ResolveInSameState.client = NilClient

C16_Witness ==
    /\ Returned("ResolveRaw")
    /\ rCall.companyID = CompanyA
    /\ rCall.indexType = ProductTree
    /\ ~CacheHit(rRead)
    /\ rHTTP.status = 404
    /\ rRet.info = Info("c0", 0, ProductsPrefix \o CompanyA)
    /\ ResolveInSameState = Ret(NoErr, "c0", ProductsPrefix \o CompanyA, FALSE, ZeroInfo)

C17_State ==
    (rCall.op \in {"Resolve", "ResolveRaw"} /\ ~ArgsGiven) =>
        /\ rPc = "idle"
        /\ rRet.err = IF rCall.companyID = <<>>
                       THEN ErrCompanyIDRequired ELSE ErrIndexTypeRequired
        /\ rRet.client = NilClient
        /\ ~rRet.hasInfo
        /\ rRead = NoRead
        /\ rHTTP = NoAnswer
        /\ rSched = {}

C17_Step ==
    (rCall'.op \in {"Resolve", "ResolveRaw"}
       /\ (rCall'.companyID = <<>> \/ rCall'.indexType = <<>>))
        => (redis' = redis /\ rPending' = rPending)

\* C17: Resolve and ResolveRaw called with an empty tenant or an empty
\* kind fail with a missing-argument error without reading Redis, without
\* calling the metadata service and without scheduling a cache write.
C17_MissingArgument == []C17_State /\ [][C17_Step]_vars

C17_Witness ==
    /\ rCall = Call("ResolveRaw", CompanyA, <<>>)
    /\ rRet.err = ErrIndexTypeRequired
    /\ rRead = NoRead
    /\ DOMAIN redis = AllKeys

C18_State ==
    (Returned("InvalidateCache") /\ rRet.err = NoErr) =>
        /\ cacheKey(rCall.companyID, rCall.indexType) \notin DOMAIN redis
        /\ sDeleted \subseteq {cacheKey(rCall.companyID, rCall.indexType)}

C18_Step ==
    (rCall'.op = "InvalidateCache" /\ rRet'.err = NoErr) =>
        /\ DOMAIN redis' = DOMAIN redis \ {cacheKey(rCall'.companyID, rCall'.indexType)}
        /\ \A k \in DOMAIN redis' : redis'[k] = redis[k]

\* C18: InvalidateCache(tenant, kind) removes the single key
\* es_settings_{tenant}_{kind} and changes no other key; it returns ok
\* also when the key was already absent.
C18_SingleKeyRemoved == []C18_State /\ [][C18_Step]_vars

C18_Witness ==
    /\ Returned("InvalidateCache")
    /\ rCall.companyID = CompanyA
    /\ rCall.indexType = KindTree
    /\ rRet.err = NoErr
    /\ sDeleted = {}
    /\ DOMAIN redis = AllKeys \ {cacheKey(CompanyA, KindTree)}

\* the call used a ClusterInfo: the one read from the cache on a hit,
\* else the one the metadata service sent with a non-empty cluster_name
UsedInfo ==
    \/ CacheHit(rRead)
    \/ /\ ~rHTTP.neterr
       /\ rHTTP.status = 200
       /\ rHTTP.body.valid
       /\ rHTTP.body.cluster_name # ""

UsedClusterName ==
    IF CacheHit(rRead) THEN rRead.info.ClusterName ELSE rHTTP.body.cluster_name

\* C19: whenever the ClusterInfo Resolve uses, read from the cache or
\* fetched from the metadata service, names a cluster that is not in the
\* resolver's client map, Resolve fails with the unknown-cluster error and
\* returns no client; it never substitutes the default cluster's client.
C19_UnknownClusterFails ==
    (Returned("Resolve") /\ ArgsGiven /\ UsedInfo
        /\ UsedClusterName \notin ClusterNames) =>
        /\ rRet.err = ErrClusterNotInMap
        /\ rRet.client = NilClient

C19_Witness ==
    /\ Returned("Resolve")
    /\ ~CacheHit(rRead)
    /\ rHTTP = Answer(FALSE, 200, Json("cX", 9, Index1))
    /\ rRet.err = ErrClusterNotInMap
    /\ rRet.client = NilClient

\* C20 (as claimed): a not-migrated answer never freezes the route: once
\* Resolve(tenant, kind) has returned the fallback route and the metadata
\* service has afterwards started to answer (tenant, kind) with the
\* migrated route (C, I), every Resolve(tenant, kind) that starts after
\* that returns the client of C and the index I.
C20_RouteNotFrozen ==
    (Returned("Resolve") /\ sync = Sync(Pair(rCall.companyID, rCall.indexType), TRUE)) =>
        rRet = Ret(NoErr, MigratedAnswer.body.cluster_name,
                   MigratedAnswer.body.index_name, FALSE, ZeroInfo)

\* the metadata service sent a ClusterInfo with a non-empty cluster_name
Routed(answer) ==
    /\ ~answer.neterr
    /\ answer.status = 200
    /\ answer.body.valid
    /\ answer.body.cluster_name # ""

\* the write a call owes for the answer it got
OwedWrite ==
    [key |-> cacheKey(rCall.companyID, rCall.indexType),
     val |-> Json(rHTTP.body.cluster_name, rHTTP.body.cluster_id, rHTTP.body.index_name),
     ttl |-> 24]

C21_State ==
    (rCall.op \in {"Resolve", "ResolveRaw"} /\ rPc = "idle" /\ ~CacheHit(rRead)
        /\ Routed(rHTTP)) => rSched = {OwedWrite}

C21_Step ==
    IF rPc = "fetch" /\ Routed(rHTTP')
    THEN rPending' = rPending \cup rSched' /\ Cardinality(rSched') = 1
    ELSE rPending' \subseteq rPending

C21_Live ==
    \A w \in CacheWrites :
        (w \in rPending) ~> (w.key \in DOMAIN redis /\ redis[w.key] = w.val)

\* C21: after Resolve or ResolveRaw obtains from the metadata service a
\* ClusterInfo with a non-empty clusterName, exactly one write of that
\* ClusterInfo under key es_settings_{tenant}_{kind} with TTL cacheTTL is
\* scheduled; when every scheduled write gets to run, Redis accepts it and
\* no invalidation intervenes, the cache eventually holds that ClusterInfo
\* under that key.
C21_WriteScheduledAndLands == []C21_State /\ [][C21_Step]_vars /\ C21_Live

C21_Witness ==
    /\ cacheKey(CompanyA, KindTree) \in DOMAIN redis
    /\ redis[cacheKey(CompanyA, KindTree)] = Json("c1", 7, Index1)
    /\ rPending = {}

\* the call in rCall took the migrated path
MigratedPath ==
    /\ rCall.op \in {"Resolve", "ResolveRaw"}
    /\ rPc = "idle"
    /\ ~CacheHit(rRead)
    /\ Routed(rHTTP)

\* what a call returns on the migrated path, from the answer alone
MigratedRet ==
    LET info == Info(rHTTP.body.cluster_name, rHTTP.body.cluster_id, rHTTP.body.index_name)
    IN  IF rCall.op = "ResolveRaw"
        THEN Ret(NoErr, NilClient, <<>>, TRUE, info)
        ELSE IF info.ClusterName \in ClusterNames
        THEN Ret(NoErr, info.ClusterName, info.IndexName, FALSE, ZeroInfo)
        ELSE Ret(ErrClusterNotInMap, NilClient, info.IndexName, FALSE, ZeroInfo)

C22_State ==
    MigratedPath =>
        /\ rRet = MigratedRet
        /\ \A w \in rSched \cap rPending : ENABLED save(w, TRUE) /\ ENABLED save(w, FALSE)

C22_Step ==
    /\ (MigratedPath /\ rHTTP' = rHTTP) => rRet' = rRet
    /\ (rCtx = CtxLive /\ rCtx' = CtxCancelled) =>
         /\ rPending' = rPending
         /\ rSched' = rSched
         /\ redis' = redis
         /\ rRet' = rRet

\* C22: the background cache write is independent of the caller: the
\* value Resolve or ResolveRaw returns on the migrated path is fixed by
\* the answer alone at a moment when the write it scheduled can still
\* land and can still fail, and nothing changes it for as long as the call
\* is the last one made; cancelling the caller's context after the write
\* has been scheduled leaves the write pending and able to land.
C22_WriteIndependent == []C22_State /\ [][C22_Step]_vars

C22_Witness ==
    /\ MigratedPath
    /\ rCtx = CtxCancelled
    /\ rSched # {}
    /\ rSched \subseteq rPending
    /\ rRet.err = NoErr

C23_State ==
    (rCall.op \in {"Resolve", "ResolveRaw"} /\ rPc = "idle" /\ rRet # NoRet /\ ArgsGiven
        /\ ~CacheHit(rRead) /\ FetchFails(rHTTP)) =>
        /\ rRet.err \notin {NoErr, NotCalled}
        /\ rRet.client = NilClient
        /\ rRet.indexName = <<>>
        /\ ~rRet.hasInfo
        /\ rRet.info = ZeroInfo
        /\ rSched = {}

C23_Step ==
    (rPc = "fetch" /\ rPc' = "idle" /\ FetchFails(rHTTP')) =>
        (redis' = redis /\ rPending' = rPending)

\* C23: a failed remote fetch is surfaced and has no side effect: when the
\* cache lookup misses and the metadata service answers with a status
\* other than 200, 400 and 404, or with 200 and an undecodable body, or
\* the HTTP call fails, Resolve and ResolveRaw return an error, no client
\* and no ClusterInfo, do not fall back to the default cluster, and
\* neither write the cache nor schedule a write.
C23_FetchFailureSurfaced == []C23_State /\ [][C23_Step]_vars

C23_Witness ==
    /\ Returned("ResolveRaw")
    /\ rRead.err = ErrCacheMiss
    /\ rHTTP = Answer(FALSE, 201, Json("c1", 7, Index1))
    /\ rRet = Ret(ErrSync, NilClient, <<>>, FALSE, ZeroInfo)
    /\ rPending = {}

\* the Redis GET of the call reported a missing key, failed, returned a
\* value that does not decode, or a ClusterInfo with an empty clusterName
MissKinds ==
    \/ rRead.err \in {ErrCacheMiss, ErrRedis, ErrUnmarshal}
    \/ rRead.err = NoErr /\ rRead.info.ClusterName = ""

\* Redis holds no usable entry under the key of the call that has returned
NoUsableEntry ==
    LET key == cacheKey(rCall.companyID, rCall.indexType)
    IN  /\ rPc = "idle"
        /\ rRet # NoRet
        /\ \/ key \notin DOMAIN redis
           \/ ~redis[key].valid
           \/ redis[key].cluster_name = ""

\* what getFromCache returns when the cache is empty
EmptyCacheRead == [err |-> ErrCacheMiss, info |-> ZeroInfo]

\* C24: a cache miss is never fatal: when the Redis GET reports a missing
\* key, fails with a connection error, returns a value that does not
\* decode as ClusterInfo, or returns a ClusterInfo with an empty
\* clusterName, Resolve and ResolveRaw continue with the remote fetch and
\* return exactly what they return when the cache is empty.
C24_MissNotFatal ==
    (rCall.op \in {"Resolve", "ResolveRaw"} /\ ArgsGiven /\ (MissKinds \/ NoUsableEntry)) =>
        \/ rPc = "fetch" /\ rRet = NoRet /\ rHTTP = NoAnswer
        \/ /\ rPc = "idle"
           /\ rHTTP \in SyncAnswers
           /\ rRet = resolveWith(rCall.op, rCall.companyID, rCall.indexType,
                                 EmptyCacheRead, rHTTP)

C24_Witness ==
    /\ Returned("Resolve")
    /\ rRead.err = ErrUnmarshal
    /\ rHTTP = Answer(FALSE, 200, Json("c1", 7, Index1))
    /\ rRet = Ret(NoErr, "c1", Index1, FALSE, ZeroInfo)

\* the query document the facade hands to the mutator
MutatorInput(req) ==
    IF req.op = "count" /\ req.Query.t = "nil" THEN EmptyObj ELSE req.Query

\* the query mutation of the call fails with TenantRequired or
\* UnexpectedFilterType
MutationFails(req) ==
    /\ req.Index # <<>>
    /\ DetectIndexTarget(req.Index) = IndexTargetShared
    /\ InjectCompanyFilter(MutatorInput(req), req.CompanyID, IndexTargetShared).err
           \in {ErrCompanyRequired, ErrUnexpectedFilterType}

C25_State ==
    /\ (oResult # NotCalled /\ (oReq.Index = <<>> \/ MutationFails(oReq))) =>
         /\ oSent = NoRequest
         /\ oResult \in {ErrIndexRequired, ErrCompanyRequired, ErrUnexpectedFilterType}
    /\ oResult \in {ErrIndexRequired, ErrCompanyRequired, ErrUnexpectedFilterType} =>
         oSent = NoRequest

C25_Step == oResult # NotCalled => oSent' = oSent

\* C25: for Search, Count, DeleteByQuery and UpdateByQuery, a call that is
\* rejected for an empty index or whose query mutation fails
\* (TenantRequired or UnexpectedFilterType) returns its error before any
\* HTTP request is handed to the transport adapter: no request for that
\* call ever reaches Elasticsearch.
C25_RejectedNeverSent == []C25_State /\ [][C25_Step]_vars

C25_Witness ==
    /\ oReq.op = "update_by_query"
    /\ oReq.Index # <<>>
    /\ oResult = ErrUnexpectedFilterType
    /\ oSent = NoRequest

\* C26 (as claimed): for every facade operation that decodes a typed
\* response, a response status in [200, 300) makes the operation decode
\* the JSON body and return the typed response, and any other status makes
\* it return StatusError(op, status) without attempting to decode the body.
C26_StatusDecides ==
    (oResult # NotCalled /\ oSent # NoRequest /\ ~oResp.err) =>
        IF oResp.status >= 200 /\ oResp.status < 300
        THEN oResult = IF oResp.json THEN OpOK ELSE ErrDecode
        ELSE oResult = ErrStatus

\* C27 (as claimed): distinct (tenant, kind) pairs never share a cache
\* key: a cache entry written by the resolver for (t, k) is never returned
\* as a cache hit to a call with a different pair.  Over a cache that
\* starts empty, while the metadata service gives the followed pair no
\* route the resolver writes no entry for that pair, so every entry is one
\* written for a different pair and a call for the followed pair never
\* gets a cache hit.
C27_NoForeignHit ==
    (rCall.op = "Resolve" /\ sync = Sync(Pair(rCall.companyID, rCall.indexType), FALSE)) =>
        ~CacheHit(rRead)

\* no other (tenant, kind) pair formats to the key of this one
SoleKey(companyID, indexType) ==
    \A c \in Companies \ {<<>>}, k \in Kinds \ {<<>>} :
        cacheKey(c, k) = cacheKey(companyID, indexType) => (c = companyID /\ k = indexType)

C28_Step ==
    (Returned("InvalidateCache") /\ rRet.err = NoErr /\ ArgsGiven
        /\ SoleKey(rCall.companyID, rCall.indexType)) =>
        cacheKey(rCall.companyID, rCall.indexType) \notin DOMAIN redis'

\* C28 (as claimed): once InvalidateCache(tenant, kind) has returned ok,
\* the key es_settings_{tenant}_{kind} stays absent until a Resolve or
\* ResolveRaw that started after the invalidation writes it: no step taken
\* while the invalidation is the last call made (the background writes of
\* earlier calls are all that can run then) creates the key.
C28_NoStaleWrite == [][C28_Step]_vars

\* C29 (as claimed): a Resolve call that fails with the unknown-cluster
\* error leaves the cache as it found it: it has scheduled no cache write,
\* and no write Resolve has scheduled carries a ClusterInfo whose
\* clusterName is not in the client map.
C29_UnknownNeverCached ==
    rCall.op = "Resolve" =>
        /\ rRet.err = ErrClusterNotInMap => rSched = {}
        /\ \A w \in rSched : w.val.cluster_name \in ClusterNames

\* C30 (as claimed): Search, DeleteByQuery and UpdateByQuery called with a
\* nil query document on a Shared index with a non-empty tenant complete
\* without a runtime failure and dispatch a body whose query is exactly
\* {bool: {filter: [companyFilter]}}, the body Count dispatches for a nil
\* query.
C30_NilQueryDispatched ==
    (oResult # NotCalled
        /\ oReq.op \in {"search", "delete_by_query", "update_by_query"}
        /\ oReq.Query = NilMap
        /\ oReq.Index # <<>>
        /\ DetectIndexTarget(oReq.Index) = IndexTargetShared
        /\ oReq.CompanyID # "") =>
        /\ oResult # Panic
        /\ oSent # NoRequest
        /\ oSent.body =
             Obj1("query", Obj1("bool", Obj1("filter", Arr(<<companyFilter(oReq.CompanyID)>>))))

====
